---- MODULE Spec2Model ----
(***************************************************************************)
(* Model of scripts/generate_test_data.py: the random fixture generators,  *)
(* the shapefile / GeoTIFF / zip writers and main().                       *)
(*                                                                         *)
(* Numbers.  Coordinates are fixed-point integers, Unit of them to one     *)
(* degree (seven decimals, so that round(x, 6) is a real rounding).        *)
(* Angles are in hundredths of a radian, sines and scale factors in        *)
(* hundredths.  random.random() is a stream of fractions k / RandDen read  *)
(* from a periodic tape chosen in the initial state.                       *)
(*                                                                         *)
(* Text.  A formatted str is a sequence of one-character strings, a       *)
(* literal str a string.  A dict is the sequence of its entries in        *)
(* insertion order, each entry a key, the Python type of the value and    *)
(* the value.                                                             *)
(***************************************************************************)
EXTENDS Integers, Sequences, FiniteSets, TLC

VARIABLES
    mode,        \* "script": run as __main__;  "import": functions called by an importer
    pc,          \* position of main()
    idx,         \* position of main()'s current loop over datasets.items()
    tape,        \* the pseudo-random stream of random.random()
    pos,         \* how far the stream has been read (modulo its period)
    hasShapefile,\* `import shapefile` succeeds
    hasNumpy,    \* `import numpy` succeeds
    hasRasterio, \* `import rasterio` succeeds
    dirExists,   \* OUTPUT_DIR exists
    files,       \* names of the files in OUTPUT_DIR
    datasets,    \* main()'s dict of the four feature collections
    assays,      \* main()'s assays rows
    survey,      \* main()'s survey rows
    geojsonOut,  \* content of <name>.geojson written by this run
    csvOut,      \* content of the CSV files written by this run
    shpOut,      \* content of the shapefiles written by this run
    zipOut,      \* members of drillholes_shp.zip written by this run
    trace,       \* the file-system operations main() has performed, in order
    result       \* import mode: the last call and what it returned

vars == <<mode, pc, idx, tape, pos, hasShapefile, hasNumpy, hasRasterio,
          dirExists, files, datasets, assays, survey, geojsonOut, csvOut,
          shpOut, zipOut, trace, result>>

----------------------------------------------------------------------------
(* Bounds of the exploration *)

TapeLen == 2        \* period of the pseudo-random stream
RandDen == 7        \* random() takes the values k / RandDen, 0 <= k < RandDen
MaxN == 3           \* largest n an importer passes to a generator
MaxVertices == 3    \* largest `vertices` an importer passes to random_polygon

RandVals == {0, 3, RandDen - 1}

----------------------------------------------------------------------------
(* Fixed-point numbers *)

Unit == 10 ^ 7

MinLon == 1165 * (Unit \div 10)
MaxLon == 1185 * (Unit \div 10)
MinLat == -(235 * (Unit \div 10))
MaxLat == -(215 * (Unit \div 10))

BOUNDS == [minLon |-> MinLon, maxLon |-> MaxLon, minLat |-> MinLat, maxLat |-> MaxLat]

\* round(x, 6): to the nearest multiple of 10 fixed-point units, ties to even
Round6(x) ==
    LET q == x \div 10
        r == x % 10
    IN  IF r < 5 THEN 10 * q
        ELSE IF r > 5 THEN 10 * (q + 1)
        ELSE IF q % 2 = 0 THEN 10 * q ELSE 10 * (q + 1)

\* math.sin and math.cos, angle in hundredths of a radian, value in hundredths
Pi == 314

SinHalf(x) == (1600 * x * (Pi - x)) \div (5 * Pi * Pi - 4 * x * (Pi - x))

Sin(a) ==
    LET t == a % (2 * Pi)
    IN  IF t <= Pi THEN SinHalf(t) ELSE -SinHalf(t - Pi)

Cos(a) == Sin(a + Pi \div 2)

----------------------------------------------------------------------------
(* The random module *)

\* random.random(): the p-th value of the stream, as a numerator over RandDen
Draw(p) == tape[(p % TapeLen) + 1]

\* random.uniform(a, b) == a + (b - a) * random()
Uniform(a, b, p) == a + ((b - a) * Draw(p)) \div RandDen

\* random.randint(a, b), both ends included
Randint(a, b, p) == a + ((b - a + 1) * Draw(p)) \div RandDen

\* random.choice(seq)
Choice(seq, p) == seq[1 + (Len(seq) * Draw(p)) \div RandDen]

----------------------------------------------------------------------------
(* str formatting *)

DigitChars == <<"0", "1", "2", "3", "4", "5", "6", "7", "8", "9">>

RECURSIVE Decimal(_)
\* str(n) for n >= 0
Decimal(n) ==
    IF n < 10 THEN <<DigitChars[n + 1]>>
    ELSE Append(Decimal(n \div 10), DigitChars[(n % 10) + 1])

RECURSIVE ZeroFill(_, _)
ZeroFill(s, width) == IF Len(s) >= width THEN s ELSE ZeroFill(<<"0">> \o s, width)

\* f"{n:0<width>d}"
ZeroPad(n, width) == ZeroFill(Decimal(n), width)

----------------------------------------------------------------------------
(* random_point and random_polygon *)

random_point_swapped(p) ==
    [val |-> <<Uniform(BOUNDS.minLat, BOUNDS.maxLat, p),
               Uniform(BOUNDS.minLon, BOUNDS.maxLon, p + 1)>>,
     p   |-> p + 2]

\* returns the point and the stream position after its two draws
random_point(p) ==
    [val |-> <<Uniform(BOUNDS.minLon, BOUNDS.maxLon, p),
               Uniform(BOUNDS.minLat, BOUNDS.maxLat, p + 1)>>,
     p   |-> p + 2]

RECURSIVE polygon_loop(_, _, _, _, _, _)
\* the for loop of random_polygon, from iteration i on
polygon_loop(center, size, vertices, i, coords, p) ==
    IF i >= vertices THEN [val |-> coords, p |-> p]
    ELSE
        LET angle == (2 * Pi * i) \div vertices + Uniform(-30, 30, p)
            r     == (size * Uniform(50, 100, p + 1)) \div 100
            pt    == <<center[1] + (r * Cos(angle)) \div 100,
                       center[2] + (((r * Sin(angle)) \div 100) * 7) \div 10>>
        IN  polygon_loop(center, size, vertices, i + 1, Append(coords, pt), p + 2)

random_polygon_open(center, size, vertices, p) ==
    LET l == polygon_loop(center, size, vertices, 0, <<>>, p)
    IN  IF Len(l.val) = 0
        THEN [raised |-> TRUE, val |-> <<>>, p |-> l.p]
        ELSE [raised |-> FALSE, val |-> l.val, p |-> l.p]

\* raised: coords[0] on an empty list is an IndexError
random_polygon(center, size, vertices, p) ==
    LET l == polygon_loop(center, size, vertices, 0, <<>>, p)
    IN  IF Len(l.val) = 0
        THEN [raised |-> TRUE, val |-> <<>>, p |-> l.p]
        ELSE [raised |-> FALSE, val |-> Append(l.val, l.val[1]), p |-> l.p]

----------------------------------------------------------------------------
(* dicts *)

Entry(k, t, v) == [k |-> k, t |-> t, v |-> v]

\* list(d.keys())
Keys(d) == [j \in 1..Len(d) |-> d[j].k]

HasKey(d, k) == \E j \in 1..Len(d) : d[j].k = k

\* d[k] for a key that is present
Get(d, k) == d[CHOOSE j \in 1..Len(d) : d[j].k = k].v

\* d.get(k, "")
GetOr(d, k) == IF HasKey(d, k) THEN Get(d, k) ELSE ""

Feature(gtype, coordinates, properties) ==
    [type       |-> "Feature",
     geometry   |-> [type |-> gtype, coordinates |-> coordinates],
     properties |-> properties]

FeatureCollection(features) == [type |-> "FeatureCollection", features |-> features]

----------------------------------------------------------------------------
(* GeoJSON generation.  Every generator returns its value and the stream   *)
(* position after its draws.                                               *)

rock_types == <<"BIF", "Shale", "Dolerite", "Granite", "Laterite">>

drillhole_zero_based(i, p) ==
    LET point == random_point(p)
        q     == point.p
    IN  Feature("Point", point.val,
          << Entry("hole_id", "str", <<"D", "D", "H", "-">> \o ZeroPad(i, 4)),
             Entry("depth_m", "int", Randint(50, 400, q)),
             Entry("rock_type", "str", Choice(rock_types, q + 1)),
             Entry("year", "int", Randint(2018, 2024, q + 2)) >>)

\* one iteration of the loop of generate_drillholes_geojson: five draws
drillhole(i, p) ==
    LET point == random_point(p)
        q     == point.p
    IN  Feature("Point", point.val,
          << Entry("hole_id", "str", <<"D", "D", "H", "-">> \o ZeroPad(i + 1, 4)),
             Entry("depth_m", "int", Randint(50, 400, q)),
             Entry("rock_type", "str", Choice(rock_types, q + 1)),
             Entry("year", "int", Randint(2018, 2024, q + 2)) >>)

generate_drillholes_geojson(n, p) ==
    [raised |-> FALSE,
     val    |-> FeatureCollection([j \in 1..n |-> drillhole(j - 1, p + 5 * (j - 1))]),
     p      |-> p + 5 * n]

units == << [code |-> "BIF", age_ma |-> 2500], [code |-> "SHL", age_ma |-> 2450],
            [code |-> "DOL", age_ma |-> 2000], [code |-> "GRN", age_ma |-> 2700],
            [code |-> "LAT", age_ma |-> 50],   [code |-> "ALV", age_ma |-> 1] >>

\* one iteration of the loop of generate_geology_geojson: seventeen draws
geology_unit(i, p) ==
    LET center == random_point(p)
        unit   == Choice(units, center.p)
        size   == Uniform(15 * (Unit \div 100), 4 * (Unit \div 10), center.p + 1)
        ring   == random_polygon(center.val, size, 6, center.p + 2)
    IN  [raised |-> ring.raised,
         val    |-> Feature("Polygon", <<ring.val>>,
                      << Entry("unit_id", "int", i + 1),
                         Entry("code", "str", unit.code),
                         Entry("age_ma", "int", unit.age_ma),
                         Entry("confidence", "str",
                               Choice(<<"High", "Medium", "Low">>, ring.p)) >>)]

generate_geology_geojson(n, p) ==
    LET made == [j \in 1..n |-> geology_unit(j - 1, p + 17 * (j - 1))]
    IN  [raised |-> \E j \in 1..n : made[j].raised,
         val    |-> FeatureCollection([j \in 1..n |-> made[j].val]),
         p      |-> p + 17 * n]

tenement_types == <<"Exploration", "Mining", "Prospecting", "Retention">>

\* the rectangle built for one tenement
tenement_ring(center, size) ==
    << <<center[1] - size, center[2] - (size * 6) \div 10>>,
       <<center[1] + size, center[2] - (size * 6) \div 10>>,
       <<center[1] + size, center[2] + (size * 6) \div 10>>,
       <<center[1] - size, center[2] + (size * 6) \div 10>>,
       <<center[1] - size, center[2] - (size * 6) \div 10>> >>

\* one iteration of the loop of generate_tenements_geojson: seven draws
tenement(i, p) ==
    LET center == random_point(p)
        size   == Uniform(2 * (Unit \div 10), 5 * (Unit \div 10), center.p)
        q      == center.p + 1
    IN  Feature("Polygon", <<tenement_ring(center.val, size)>>,
          << Entry("tenement_id", "str",
                   <<"E">> \o Decimal(Randint(45, 52, q)) \o <<"/">>
                           \o Decimal(Randint(1000, 9999, q + 1))),
             Entry("type", "str", Choice(tenement_types, q + 2)),
             Entry("status", "str",
                   Choice(<<"Active", "Active", "Active", "Pending">>, q + 3)) >>)

generate_tenements_geojson(n, p) ==
    [raised |-> FALSE,
     val    |-> FeatureCollection([j \in 1..n |-> tenement(j - 1, p + 7 * (j - 1))]),
     p      |-> p + 7 * n]

RECURSIVE track_path(_, _, _, _)
\* the inner loop of generate_tracks_geojson: `steps` more points after `current`
track_path(steps, current, coords, p) ==
    IF steps = 0 THEN [val |-> coords, p |-> p]
    ELSE
        LET next == <<current[1] + Uniform(-(Unit \div 10), Unit \div 10, p),
                      current[2] + Uniform(-(Unit \div 10), Unit \div 10, p + 1)>>
        IN  track_path(steps - 1, next, Append(coords, next), p + 2)

RECURSIVE tracks_loop(_, _, _, _)
tracks_loop(n, i, features, p) ==
    IF i >= n THEN [val |-> features, p |-> p]
    ELSE
        LET start == random_point(p)
            path  == track_path(Randint(5, 12, start.p), start.val, <<start.val>>, start.p + 1)
            f     == Feature("LineString", path.val,
                       << Entry("track_id", "int", i + 1),
                          Entry("surface", "str", Choice(<<"Gravel", "Dirt", "Sealed">>, path.p)),
                          Entry("width_m", "int", Choice(<<4, 6, 8, 10, 15>>, path.p + 1)) >>)
        IN  tracks_loop(n, i + 1, Append(features, f), path.p + 2)

generate_tracks_geojson(n, p) ==
    LET l == tracks_loop(n, 0, <<>>, p)
    IN  [raised |-> FALSE, val |-> FeatureCollection(l.val), p |-> l.p]

----------------------------------------------------------------------------
(* CSV generation *)

\* one iteration of the loop of generate_assays_csv: three draws
assay_row(i, p) ==
    LET point == random_point(p)
    IN  << Entry("sample_id", "str", <<"S">> \o ZeroPad(i + 1, 5)),
           Entry("longitude", "float", Round6(point.val[1])),
           Entry("latitude", "float", Round6(point.val[2])),
           Entry("sample_type", "str",
                 Choice(<<"RC", "DD", "Surface", "Trench">>, point.p)) >>

generate_assays_csv(n, p) ==
    [raised |-> FALSE,
     val    |-> [j \in 1..n |-> assay_row(j - 1, p + 3 * (j - 1))],
     p      |-> p + 3 * n]

\* one iteration of the loop of generate_survey_csv: three draws
survey_row(i, p) ==
    LET point == random_point(p)
    IN  << Entry("point_id", "int", i + 1),
           Entry("x", "float", Round6(point.val[1])),
           Entry("y", "float", Round6(point.val[2])),
           Entry("description", "str",
                 Choice(<<"Control", "Boundary", "Feature", "Grid">>, point.p)) >>

generate_survey_csv(n, p) ==
    [raised |-> FALSE,
     val    |-> [j \in 1..n |-> survey_row(j - 1, p + 3 * (j - 1))],
     p      |-> p + 3 * n]

----------------------------------------------------------------------------
(* Files of OUTPUT_DIR *)

File(stem, ext) == [stem |-> stem, ext |-> ext]

\* OUTPUT_DIR.glob(stem + ".*")
Glob(dir, stem) == {f \in dir : f.stem = stem}

----------------------------------------------------------------------------
(* Shapefile generation *)

\* key[:10]; "tenement_id" is the only key longer than ten characters
Key10(k) == IF k = "tenement_id" THEN "tenement_i" ELSE k

\* the w.field(...) call made for one property of the first feature
FieldOf(e) ==
    IF e.t = "int" THEN [name |-> Key10(e.k), type |-> "N", size |-> 10, decimal |-> 0]
    ELSE IF e.t = "float" THEN [name |-> Key10(e.k), type |-> "N", size |-> 16, decimal |-> 6]
    ELSE [name |-> Key10(e.k), type |-> "C", size |-> 100, decimal |-> 0]

\* the shape written for one feature: w.point / w.line / w.poly
ShapeOf(geom) ==
    IF geom.type = "Point" THEN [shapeType |-> "POINT", parts |-> <<geom.coordinates>>]
    ELSE IF geom.type = "LineString" THEN [shapeType |-> "POLYLINE", parts |-> <<geom.coordinates>>]
    ELSE [shapeType |-> "POLYGON", parts |-> geom.coordinates]

\* the w.record(...) call made for one feature
RecordOf(f, keys) == [j \in 1..Len(keys) |-> GetOr(f.properties, keys[j])]

ShapeFiles(name) == <<File(name, "shp"), File(name, "shx"), File(name, "dbf"), File(name, "prj")>>

NoShapefile == [ok |-> FALSE, raised |-> FALSE, written |-> <<>>, content |-> <<>>]

generate_shapefile_nocatch(geojson_data, name, importable) ==
    IF ~importable THEN [NoShapefile EXCEPT !.raised = TRUE] ELSE NoShapefile

generate_shapefile_skipfirst(geojson_data, name, importable) ==
    LET features == geojson_data.features
    IN  IF ~importable \/ Len(features) = 0 THEN NoShapefile
        ELSE [ok      |-> TRUE,
              raised  |-> FALSE,
              written |-> ShapeFiles(name),
              content |-> << [shapeType |-> ShapeOf(features[1].geometry).shapeType,
                              fields  |-> [j \in 1..Len(features[1].properties) |->
                                             FieldOf(features[1].properties[j])],
                              shapes  |-> [j \in 1..(Len(features) - 1) |->
                                             ShapeOf(features[j + 1].geometry)],
                              records |-> [j \in 1..(Len(features) - 1) |->
                                             RecordOf(features[j + 1],
                                                      Keys(features[1].properties))]] >>]

\* ok: the function returned True;  written: the files it wrote, in order
generate_shapefile(geojson_data, name, importable) ==
    LET features == geojson_data.features
    IN  IF ~importable THEN NoShapefile
        ELSE IF Len(features) = 0 THEN NoShapefile
        ELSE IF features[1].geometry.type \notin {"Point", "LineString", "Polygon"}
        THEN NoShapefile
        ELSE [ok      |-> TRUE,
              raised  |-> FALSE,
              written |-> ShapeFiles(name),
              content |-> << [shapeType |-> ShapeOf(features[1].geometry).shapeType,
                              fields  |-> [j \in 1..Len(features[1].properties) |->
                                             FieldOf(features[1].properties[j])],
                              shapes  |-> [j \in 1..Len(features) |->
                                             ShapeOf(features[j].geometry)],
                              records |-> [j \in 1..Len(features) |->
                                             RecordOf(features[j],
                                                      Keys(features[1].properties))]] >>]

----------------------------------------------------------------------------
(* GeoTIFF generation *)

\* ok: the function returned True;  written: the files it wrote, in order
generate_geotiff(numpy, rasterio) ==
    IF ~(numpy /\ rasterio) THEN [ok |-> FALSE, written |-> <<>>]
    ELSE [ok |-> TRUE, written |-> <<File("elevation", "tif"), File("satellite_rgb", "tif")>>]

----------------------------------------------------------------------------
(* main() *)

NDrillholes == 50
NGeology == 15
NTenements == 8
NTracks == 5
NAssays == 100
NSurvey == 200

DatasetNames == <<"drillholes", "geology", "tenements", "tracks">>

Range(seq) == {seq[j] : j \in 1..Len(seq)}

Mkdir == [op |-> "mkdir", file |-> File("", "")]
Write(f) == [op |-> "write", file |-> f]
Writes(fs) == [j \in 1..Len(fs) |-> Write(fs[j])]

\* files a previous run with pyshp installed may have left in OUTPUT_DIR
StaleShapefile == Range(ShapeFiles("drillholes"))

NoResult == [fn |-> "", arg |-> <<>>, raised |-> FALSE, val |-> <<>>]

Unwritten == [n \in Range(DatasetNames) |-> <<>>]

InitScript ==
    /\ mode = "script"
    /\ hasShapefile \in BOOLEAN
    /\ hasNumpy \in BOOLEAN
    /\ hasRasterio \in BOOLEAN
    /\ \/ dirExists = FALSE /\ files = {}
       \/ dirExists = TRUE /\ files \in {{}, StaleShapefile}

InitImport ==
    /\ mode = "import"
    /\ hasShapefile = FALSE
    /\ hasNumpy = FALSE
    /\ hasRasterio = FALSE
    /\ dirExists = FALSE
    /\ files = {}

Init ==
    /\ InitScript \/ InitImport
    /\ pc = "start"
    /\ idx = 1
    /\ tape \in [1..TapeLen -> RandVals]
    /\ pos = 0
    /\ datasets = <<>>
    /\ assays = <<>>
    /\ survey = <<>>
    /\ geojsonOut = Unwritten
    /\ csvOut = [n \in {"assays", "survey_points"} |-> <<>>]
    /\ shpOut = Unwritten
    /\ zipOut = <<>>
    /\ trace = <<>>
    /\ result = NoResult

\* OUTPUT_DIR.mkdir(parents=True, exist_ok=True)
MakeOutputDir ==
    /\ mode = "script" /\ pc = "start"
    /\ dirExists' = TRUE
    /\ trace' = Append(trace, Mkdir)
    /\ pc' = "generate"
    /\ UNCHANGED <<mode, idx, tape, pos, hasShapefile, hasNumpy, hasRasterio, files,
                   datasets, assays, survey, geojsonOut, csvOut, shpOut, zipOut, result>>

\* datasets = { ... }: the four generators, called in this order
GenerateDatasets ==
    /\ mode = "script" /\ pc = "generate"
    /\ LET d == generate_drillholes_geojson(NDrillholes, pos)
           g == generate_geology_geojson(NGeology, d.p)
           t == generate_tenements_geojson(NTenements, g.p)
           k == generate_tracks_geojson(NTracks, t.p)
       IN  /\ pos' = k.p % TapeLen
           /\ IF d.raised \/ g.raised \/ t.raised \/ k.raised
              THEN pc' = "aborted" /\ UNCHANGED datasets
              ELSE /\ pc' = "geojson"
                   /\ datasets' = << [k |-> "drillholes", v |-> d.val],
                                     [k |-> "geology", v |-> g.val],
                                     [k |-> "tenements", v |-> t.val],
                                     [k |-> "tracks", v |-> k.val] >>
    /\ idx' = 1
    /\ UNCHANGED <<mode, tape, hasShapefile, hasNumpy, hasRasterio, dirExists, files,
                   assays, survey, geojsonOut, csvOut, shpOut, zipOut, trace, result>>

\* one iteration of the loop that dumps <name>.geojson
WriteGeoJSON ==
    /\ mode = "script" /\ pc = "geojson"
    /\ LET name == datasets[idx].k
           data == datasets[idx].v
       IN  /\ geojsonOut' = [geojsonOut EXCEPT ![name] = <<data>>]
           /\ files' = files \cup {File(name, "geojson")}
           /\ trace' = Append(trace, Write(File(name, "geojson")))
    /\ IF idx < Len(datasets)
       THEN idx' = idx + 1 /\ pc' = pc
       ELSE idx' = 1 /\ pc' = "assays"
    /\ UNCHANGED <<mode, tape, pos, hasShapefile, hasNumpy, hasRasterio, dirExists,
                   datasets, assays, survey, csvOut, shpOut, zipOut, result>>

\* csv.DictWriter(f, fieldnames=rows[0].keys()); writeheader(); writerows(rows)
CsvOf(rows) ==
    [header |-> Keys(rows[1]),
     rows   |-> [j \in 1..Len(rows) |->
                   [c \in 1..Len(rows[1]) |-> Get(rows[j], Keys(rows[1])[c])]]]

\* assays = generate_assays_csv(100) and the writing of assays.csv
WriteAssays ==
    /\ mode = "script" /\ pc = "assays"
    /\ LET a == generate_assays_csv(NAssays, pos)
       IN  /\ pos' = a.p % TapeLen
           /\ assays' = a.val
           /\ IF Len(a.val) = 0
              THEN /\ pc' = "aborted"
                   /\ files' = files \cup {File("assays", "csv")}
                   /\ trace' = Append(trace, Write(File("assays", "csv")))
                   /\ UNCHANGED csvOut
              ELSE /\ pc' = "survey"
                   /\ files' = files \cup {File("assays", "csv")}
                   /\ trace' = Append(trace, Write(File("assays", "csv")))
                   /\ csvOut' = [csvOut EXCEPT !["assays"] = <<CsvOf(a.val)>>]
    /\ UNCHANGED <<mode, idx, tape, hasShapefile, hasNumpy, hasRasterio, dirExists,
                   datasets, survey, geojsonOut, shpOut, zipOut, result>>

\* survey = generate_survey_csv(200) and the writing of survey_points.csv
WriteSurvey ==
    /\ mode = "script" /\ pc = "survey"
    /\ LET a == generate_survey_csv(NSurvey, pos)
       IN  /\ pos' = a.p % TapeLen
           /\ survey' = a.val
           /\ IF Len(a.val) = 0
              THEN /\ pc' = "aborted"
                   /\ files' = files \cup {File("survey_points", "csv")}
                   /\ trace' = Append(trace, Write(File("survey_points", "csv")))
                   /\ UNCHANGED csvOut
              ELSE /\ pc' = "shapefiles"
                   /\ files' = files \cup {File("survey_points", "csv")}
                   /\ trace' = Append(trace, Write(File("survey_points", "csv")))
                   /\ csvOut' = [csvOut EXCEPT !["survey_points"] = <<CsvOf(a.val)>>]
    /\ UNCHANGED <<mode, idx, tape, hasShapefile, hasNumpy, hasRasterio, dirExists,
                   datasets, assays, geojsonOut, shpOut, zipOut, result>>

\* one iteration of the loop that calls generate_shapefile(data, name)
WriteShapefile ==
    /\ mode = "script" /\ pc = "shapefiles"
    /\ LET name == datasets[idx].k
           r    == generate_shapefile(datasets[idx].v, name, hasShapefile)
       IN  /\ files' = files \cup Range(r.written)
           /\ trace' = trace \o Writes(r.written)
           /\ shpOut' = [shpOut EXCEPT ![name] = r.content]
           /\ IF r.raised THEN idx' = idx /\ pc' = "aborted"
              ELSE IF idx < Len(datasets) THEN idx' = idx + 1 /\ pc' = pc
              ELSE idx' = 1 /\ pc' = "geotiff"
    /\ UNCHANGED <<mode, tape, pos, hasShapefile, hasNumpy, hasRasterio, dirExists,
                   datasets, assays, survey, geojsonOut, csvOut, zipOut, result>>

\* if generate_geotiff(): ...
WriteGeoTiff ==
    /\ mode = "script" /\ pc = "geotiff"
    /\ LET r == generate_geotiff(hasNumpy, hasRasterio)
       IN  /\ files' = files \cup Range(r.written)
           /\ trace' = trace \o Writes(r.written)
    /\ pc' = "zip"
    /\ UNCHANGED <<mode, idx, tape, pos, hasShapefile, hasNumpy, hasRasterio, dirExists,
                   datasets, assays, survey, geojsonOut, csvOut, shpOut, zipOut, result>>

\* shp_files = list(OUTPUT_DIR.glob("drillholes.*"))
ZipSources(dir) == Glob(dir, "drillholes")

\* the try block that zips shp_files into drillholes_shp.zip
ZipDrillholes ==
    /\ mode = "script" /\ pc = "zip"
    /\ LET shp_files == ZipSources(files)
       IN  IF shp_files # {}
           THEN /\ zipOut' = <<shp_files>>
                /\ files' = files \cup {File("drillholes_shp", "zip")}
                /\ trace' = Append(trace, Write(File("drillholes_shp", "zip")))
           ELSE UNCHANGED <<zipOut, files, trace>>
    /\ pc' = "finish"
    /\ UNCHANGED <<mode, idx, tape, pos, hasShapefile, hasNumpy, hasRasterio, dirExists,
                   datasets, assays, survey, geojsonOut, csvOut, shpOut, result>>

\* print("\nDone! ...") and the return of main()
Finish ==
    /\ mode = "script" /\ pc = "finish"
    /\ pc' = "done"
    /\ UNCHANGED <<mode, idx, tape, pos, hasShapefile, hasNumpy, hasRasterio, dirExists,
                   files, datasets, assays, survey, geojsonOut, csvOut, shpOut, zipOut,
                   trace, result>>

----------------------------------------------------------------------------
(* The module imported: its functions called with arguments of the caller  *)

Centers == {<<MinLon, MinLat>>, <<MaxLon - Unit \div 3, MaxLat - Unit \div 7>>}
Sizes == {Unit \div 10, 4 * (Unit \div 10)}

Returned(fn, arg, r) ==
    /\ result' = [fn |-> fn, arg |-> arg, raised |-> r.raised, val |-> r.val]
    /\ pos' = r.p % TapeLen
    /\ UNCHANGED <<mode, pc, idx, tape, hasShapefile, hasNumpy, hasRasterio, dirExists,
                   files, datasets, assays, survey, geojsonOut, csvOut, shpOut, zipOut,
                   trace>>

CallRandomPoint ==
    /\ mode = "import"
    /\ LET r == random_point(pos)
       IN  Returned("random_point", <<>>, [raised |-> FALSE, val |-> r.val, p |-> r.p])

CallRandomPolygon ==
    /\ mode = "import"
    /\ \E center \in Centers, size \in Sizes, vertices \in 0..MaxVertices :
         Returned("random_polygon", <<center, size, vertices>>,
                  random_polygon(center, size, vertices, pos))

CallDrillholes ==
    /\ mode = "import"
    /\ \E n \in 0..MaxN :
         Returned("generate_drillholes_geojson", <<n>>, generate_drillholes_geojson(n, pos))

CallGeology ==
    /\ mode = "import"
    /\ \E n \in 0..MaxN :
         Returned("generate_geology_geojson", <<n>>, generate_geology_geojson(n, pos))

CallTenements ==
    /\ mode = "import"
    /\ \E n \in 0..MaxN :
         Returned("generate_tenements_geojson", <<n>>, generate_tenements_geojson(n, pos))

CallTracks ==
    /\ mode = "import"
    /\ \E n \in 0..MaxN :
         Returned("generate_tracks_geojson", <<n>>, generate_tracks_geojson(n, pos))

CallAssays ==
    /\ mode = "import"
    /\ \E n \in 0..MaxN :
         Returned("generate_assays_csv", <<n>>, generate_assays_csv(n, pos))

CallSurvey ==
    /\ mode = "import"
    /\ \E n \in 0..MaxN :
         Returned("generate_survey_csv", <<n>>, generate_survey_csv(n, pos))

----------------------------------------------------------------------------

Next ==
    \/ MakeOutputDir
    \/ GenerateDatasets
    \/ WriteGeoJSON
    \/ WriteAssays
    \/ WriteSurvey
    \/ WriteShapefile
    \/ WriteGeoTiff
    \/ ZipDrillholes
    \/ Finish
    \/ CallRandomPoint
    \/ CallRandomPolygon
    \/ CallDrillholes
    \/ CallGeology
    \/ CallTenements
    \/ CallAssays
    \/ CallSurvey
    \/ CallTracks

Spec == Init /\ [][Next]_vars

----------------------------------------------------------------------------
(* Vocabulary of the properties *)

InBounds(pt) ==
    /\ MinLon <= pt[1] /\ pt[1] <= MaxLon
    /\ MinLat <= pt[2] /\ pt[2] <= MaxLat

Closed(ring) == Len(ring) > 0 /\ ring[Len(ring)] = ring[1]

DigitValue(c) == CHOOSE d \in 0..9 : DigitChars[d + 1] = c

IsDigits(s) == \A j \in 1..Len(s) : s[j] \in Range(DigitChars)

RECURSIVE ParseDecimal(_)
\* int(s) for a string of decimal digits
ParseDecimal(s) ==
    IF Len(s) = 0 THEN 0
    ELSE 10 * ParseDecimal(SubSeq(s, 1, Len(s) - 1)) + DigitValue(s[Len(s)])

\* s is `prefix` followed by the decimal form of i, zero-padded to `width` digits
IsPaddedId(s, prefix, width, i) ==
    LET k == Len(prefix)
        digits == SubSeq(s, k + 1, Len(s))
    IN  /\ Len(s) >= k + width
        /\ SubSeq(s, 1, k) = prefix
        /\ IsDigits(digits)
        /\ ParseDecimal(digits) = i
        /\ Len(s) > k + width => digits[1] # "0"

\* the items carry the identifiers 1..Len(items) under `key`, as plain integers
SequentialInts(items, key) == \A i \in 1..Len(items) : Get(items[i], key) = i

\* the items carry the identifiers 1..Len(items) under `key`, as padded strings
SequentialIds(items, key, prefix, width) ==
    \A i \in 1..Len(items) : IsPaddedId(Get(items[i], key), prefix, width, i)

Distinct(items, key) ==
    Cardinality({Get(items[i], key) : i \in 1..Len(items)}) = Len(items)

Props(features) == [i \in 1..Len(features) |-> features[i].properties]

Called(fn) == mode = "import" /\ result.fn = fn

InShapePhase(e) == e.op = "write" /\ e.file.ext \in {"shp", "shx", "dbf", "prj"}

\* rank of the phase of main() an operation belongs to
Phase(e) ==
    IF e.op = "mkdir" THEN 0
    ELSE IF e.file.ext = "geojson" THEN 1
    ELSE IF e.file.ext = "csv" THEN 2
    ELSE IF InShapePhase(e) THEN 3
    ELSE IF e.file.ext = "tif" THEN 4
    ELSE 5

BasicOutputs ==
    {File(DatasetNames[j], "geojson") : j \in 1..Len(DatasetNames)}
        \cup {File("assays", "csv"), File("survey_points", "csv")}

----------------------------------------------------------------------------
(* C1: whichever of the optional modules (shapefile; numpy, rasterio) are  *)
(* absent, main() never aborts on an exception and is at a statement it    *)
(* can execute until it has printed "Done!"; by then the four GeoJSON      *)
(* files and both CSV files are written by this run; an absent module only *)
(* means that no .shp component (generate_shapefile returned False) or no  *)
(* .tif (generate_geotiff returned False) is written.                      *)
\* main() is at a statement whose step is enabled: every step of main() is
\* guarded by its position alone, and a loop position is inside its dict
AtStatement ==
    /\ pc \in {"start", "generate", "geojson", "assays", "survey", "shapefiles",
               "geotiff", "zip", "finish"}
    /\ pc \in {"geojson", "shapefiles"} => idx \in 1..Len(datasets)

C1_RunsWithoutDependencies ==
    mode = "script" =>
        /\ pc # "aborted"
        /\ pc # "done" => AtStatement
        /\ pc = "done" =>
              /\ BasicOutputs \subseteq files
              /\ \A j \in 1..Len(DatasetNames) : Len(geojsonOut[DatasetNames[j]]) = 1
              /\ Len(csvOut["assays"]) = 1 /\ Len(csvOut["survey_points"]) = 1
              /\ \A f \in BasicOutputs : \E j \in 1..Len(trace) : trace[j] = Write(f)
        /\ ~hasShapefile =>
              /\ \A j \in 1..Len(trace) : ~InShapePhase(trace[j])
              /\ \A j \in 1..Len(DatasetNames) : Len(shpOut[DatasetNames[j]]) = 0
        /\ ~(hasNumpy /\ hasRasterio) =>
              \A j \in 1..Len(trace) : trace[j].file.ext # "tif"

C1_Witness ==
    /\ mode = "script" /\ pc = "done"
    /\ ~hasShapefile /\ ~hasNumpy /\ ~hasRasterio
    /\ BasicOutputs \subseteq files
    /\ File("elevation", "tif") \notin files

----------------------------------------------------------------------------
(* C2: random_point() returns a [lon, lat] pair inside BOUNDS, and so      *)
(* every drillhole Point coordinate, every assays.csv longitude/latitude   *)
(* and every survey_points.csv x/y lies inside BOUNDS.                     *)
C2_PointsInBounds ==
    /\ Called("random_point") => InBounds(result.val)
    /\ Called("generate_drillholes_geojson") =>
          \A i \in 1..Len(result.val.features) :
              InBounds(result.val.features[i].geometry.coordinates)
    /\ Called("generate_assays_csv") =>
          \A i \in 1..Len(result.val) :
              InBounds(<<Get(result.val[i], "longitude"), Get(result.val[i], "latitude")>>)
    /\ Called("generate_survey_csv") =>
          \A i \in 1..Len(result.val) :
              InBounds(<<Get(result.val[i], "x"), Get(result.val[i], "y")>>)
    /\ Len(geojsonOut["drillholes"]) = 1 =>
          \A i \in 1..Len(geojsonOut["drillholes"][1].features) :
              InBounds(geojsonOut["drillholes"][1].features[i].geometry.coordinates)
    /\ Len(csvOut["assays"]) = 1 =>
          \A i \in 1..Len(csvOut["assays"][1].rows) :
              InBounds(<<csvOut["assays"][1].rows[i][2], csvOut["assays"][1].rows[i][3]>>)
    /\ Len(csvOut["survey_points"]) = 1 =>
          \A i \in 1..Len(csvOut["survey_points"][1].rows) :
              InBounds(<<csvOut["survey_points"][1].rows[i][2],
                         csvOut["survey_points"][1].rows[i][3]>>)

C2_Witness ==
    /\ mode = "script" /\ pc = "done"
    /\ csvOut["assays"][1].header = <<"sample_id", "longitude", "latitude", "sample_type">>
    /\ \E i \in 1..Len(csvOut["assays"][1].rows) : \E k \in 1..(RandDen - 1) :
          LET raw == MinLon + ((MaxLon - MinLon) * k) \div RandDen
          IN  /\ csvOut["assays"][1].rows[i][2] = Round6(raw)
              /\ Round6(raw) # raw
              /\ MinLon < Round6(raw) /\ Round6(raw) < MaxLon

----------------------------------------------------------------------------
(* C3, as stated: random_polygon(center, size, vertices) returns exactly   *)
(* vertices+1 coordinates whose last element equals its first, for every   *)
(* value of vertices, and every tenement ring has exactly 5 coordinates    *)
(* whose last element equals its first.                                    *)
C3_AsStated ==
    /\ Called("random_polygon") =>
          /\ ~result.raised
          /\ Len(result.val) = result.arg[3] + 1
          /\ Closed(result.val)
    /\ Called("generate_tenements_geojson") =>
          \A i \in 1..Len(result.val.features) :
              LET ring == result.val.features[i].geometry.coordinates[1]
              IN  Len(ring) = 5 /\ Closed(ring)

RingsOf(features) == [i \in 1..Len(features) |-> features[i].geometry.coordinates]

\* every feature has one ring, of `size` coordinates, closed
AllClosed(features, size) ==
    \A i \in 1..Len(features) :
        /\ Len(RingsOf(features)[i]) = 1
        /\ Len(RingsOf(features)[i][1]) = size
        /\ Closed(RingsOf(features)[i][1])

(* C3, amended: random_polygon(center, size, vertices) with vertices >= 1  *)
(* returns exactly vertices+1 coordinates whose last element equals its    *)
(* first; with vertices = 0 it raises IndexError and returns nothing.      *)
(* Every ring the script generates is closed: a geology ring has 7         *)
(* coordinates, a tenement ring has 5, and the last equals the first.      *)
C3_RingsClosed ==
    /\ Called("random_polygon") /\ result.arg[3] >= 1 =>
          /\ ~result.raised
          /\ Len(result.val) = result.arg[3] + 1
          /\ Closed(result.val)
    /\ Called("random_polygon") /\ result.arg[3] = 0 => result.raised
    /\ Called("generate_geology_geojson") =>
          ~result.raised /\ AllClosed(result.val.features, 7)
    /\ Called("generate_tenements_geojson") => AllClosed(result.val.features, 5)
    /\ Len(geojsonOut["geology"]) = 1 => AllClosed(geojsonOut["geology"][1].features, 7)
    /\ Len(geojsonOut["tenements"]) = 1 => AllClosed(geojsonOut["tenements"][1].features, 5)

C3_Witness ==
    /\ Called("random_polygon")
    /\ result.arg[3] = MaxVertices
    /\ ~result.raised
    /\ Len(result.val) = MaxVertices + 1
    /\ result.val[1] # result.val[2]

----------------------------------------------------------------------------
(* C4: drillholes_shp.zip is written only when the drillholes shapefile    *)
(* was generated, and its members are exactly drillholes.shp, .shx, .dbf   *)
(* and .prj.                                                               *)
C4_ZipIsTheShapefile ==
    Len(zipOut) = 1 =>
        /\ Len(shpOut["drillholes"]) = 1
        /\ zipOut[1] = Range(ShapeFiles("drillholes"))

----------------------------------------------------------------------------
(* C5: a generator called with n >= 0 returns exactly n items, in          *)
(* generation order, the i-th carrying the identifier i (hole_id "DDH-"    *)
(* and i zero-padded to 4 digits, unit_id i, track_id i, sample_id "S"     *)
(* and i zero-padded to 5 digits, point_id i), so that the identifiers of  *)
(* a dataset are pairwise distinct; and main() writes 50 drillholes, 15    *)
(* geology units, 8 tenements, 5 tracks, 100 assay rows, 200 survey rows.  *)
Drillholes(features) ==
    /\ SequentialIds(Props(features), "hole_id", <<"D", "D", "H", "-">>, 4)
    /\ Distinct(Props(features), "hole_id")

Geology(features) ==
    SequentialInts(Props(features), "unit_id") /\ Distinct(Props(features), "unit_id")

Tracks(features) ==
    SequentialInts(Props(features), "track_id") /\ Distinct(Props(features), "track_id")

Assays(rows) ==
    SequentialIds(rows, "sample_id", <<"S">>, 5) /\ Distinct(rows, "sample_id")

Survey(rows) == SequentialInts(rows, "point_id") /\ Distinct(rows, "point_id")

\* the first column of a written CSV file, as the rows generated for it carry it
FirstColumn(csv, rows) ==
    /\ Len(csv.rows) = Len(rows)
    /\ \A i \in 1..Len(rows) : csv.rows[i][1] = rows[i][1].v

C5_CountsAndIdentifiers ==
    /\ Called("generate_drillholes_geojson") =>
          Len(result.val.features) = result.arg[1] /\ Drillholes(result.val.features)
    /\ Called("generate_geology_geojson") =>
          Len(result.val.features) = result.arg[1] /\ Geology(result.val.features)
    /\ Called("generate_tenements_geojson") => Len(result.val.features) = result.arg[1]
    /\ Called("generate_tracks_geojson") =>
          Len(result.val.features) = result.arg[1] /\ Tracks(result.val.features)
    /\ Called("generate_assays_csv") =>
          Len(result.val) = result.arg[1] /\ Assays(result.val)
    /\ Called("generate_survey_csv") =>
          Len(result.val) = result.arg[1] /\ Survey(result.val)
    /\ Len(geojsonOut["drillholes"]) = 1 =>
          /\ Len(geojsonOut["drillholes"][1].features) = 50
          /\ Drillholes(geojsonOut["drillholes"][1].features)
    /\ Len(geojsonOut["geology"]) = 1 =>
          /\ Len(geojsonOut["geology"][1].features) = 15
          /\ Geology(geojsonOut["geology"][1].features)
    /\ Len(geojsonOut["tenements"]) = 1 => Len(geojsonOut["tenements"][1].features) = 8
    /\ Len(geojsonOut["tracks"]) = 1 =>
          /\ Len(geojsonOut["tracks"][1].features) = 5
          /\ Tracks(geojsonOut["tracks"][1].features)
    /\ Len(csvOut["assays"]) = 1 =>
          /\ Len(csvOut["assays"][1].rows) = 100
          /\ Assays(assays) /\ FirstColumn(csvOut["assays"][1], assays)
    /\ Len(csvOut["survey_points"]) = 1 =>
          /\ Len(csvOut["survey_points"][1].rows) = 200
          /\ Survey(survey) /\ FirstColumn(csvOut["survey_points"][1], survey)

C5_Witness ==
    /\ mode = "script" /\ pc = "done"
    /\ Get(geojsonOut["drillholes"][1].features[50].properties, "hole_id")
          = <<"D", "D", "H", "-", "0", "0", "5", "0">>
    /\ csvOut["assays"][1].rows[100][1] = <<"S", "0", "0", "1", "0", "0">>
    /\ csvOut["survey_points"][1].rows[200][1] = 200

----------------------------------------------------------------------------
(* C6: main() creates the output directory before it writes any file; its  *)
(* phases occur in the order GeoJSON, CSV, shapefiles, GeoTIFF, zip; the   *)
(* datasets are generated once and never change afterwards, and they are   *)
(* what <name>.geojson holds; and a shapefile that is written has as many  *)
(* records as <name>.geojson has features, in the same order.              *)
SameRecords(shp, features) ==
    /\ Len(shp.records) = Len(features)
    /\ Len(shp.shapes) = Len(features)
    /\ \A i \in 1..Len(features) :
          /\ Len(shp.records[i]) = Len(features[i].properties)
          /\ \A j \in 1..Len(features[i].properties) :
                shp.records[i][j] = features[i].properties[j].v
          /\ shp.shapes[i].parts = IF features[i].geometry.type = "Polygon"
                                   THEN features[i].geometry.coordinates
                                   ELSE <<features[i].geometry.coordinates>>

C6_State ==
    mode = "script" =>
        /\ Len(trace) > 0 => trace[1].op = "mkdir" /\ dirExists
        /\ \A i \in 1..Len(trace) : \A j \in i..Len(trace) : Phase(trace[i]) <= Phase(trace[j])
        /\ \A k \in 1..Len(DatasetNames) :
              LET name == DatasetNames[k]
              IN  /\ Len(geojsonOut[name]) = 1 =>
                        datasets[k].k = name /\ geojsonOut[name][1] = datasets[k].v
                  /\ Len(shpOut[name]) = 1 =>
                        /\ Len(geojsonOut[name]) = 1
                        /\ SameRecords(shpOut[name][1], geojsonOut[name][1].features)

C6_Step ==
    /\ Len(datasets) > 0 => datasets' = datasets
    /\ Len(assays) > 0 => assays' = assays
    /\ Len(survey) > 0 => survey' = survey
    /\ \A k \in 1..Len(DatasetNames) :
          Len(geojsonOut[DatasetNames[k]]) = 1 =>
              geojsonOut'[DatasetNames[k]] = geojsonOut[DatasetNames[k]]

C6_PhasesAndSameData == []C6_State /\ [][C6_Step]_vars

C6_Witness ==
    /\ mode = "script" /\ pc = "done" /\ hasShapefile
    /\ \A k \in 1..Len(DatasetNames) : Len(shpOut[DatasetNames[k]]) = 1
    /\ Len(shpOut["tracks"][1].records) = NTracks
    /\ Len(trace) > 20

====
